---- MODULE Spec2Model ----
(***************************************************************************)
(* Control engine of hifi_player_v4_6_2.py: the debounced command queue,   *)
(* the command worker, the position poller with its auto-advance           *)
(* heuristic, and the shared playback state.                               *)
(*                                                                         *)
(* Time.  Positions and durations are in tenths of a second.  The two      *)
(* wall-clock comparisons of the code are kept as the relation of "now"    *)
(* to the recorded stamp:                                                  *)
(*   last_command_time           "stale", or inside the 100ms window:      *)
(*                               "fresh", with "_early" when the stamp is  *)
(*                               older than that of track_start_time and   *)
(*                               "_cycle" when it is older than the start  *)
(*                               of the poll cycle under way               *)
(*   track_start_time            "zero" (the value 0), "fresh" (now -      *)
(*                               stamp <= 3.0s) or "stale" (> 3.0s)        *)
(* and time passing turns "fresh" into "stale" (DebounceElapse,            *)
(* GraceElapse).  A time.sleep() of 0.1s or more, in the worker's Play     *)
(* or in the idle poller, ends the debounce window of every earlier put.   *)
(*                                                                         *)
(* The console makes any choice of its menu at any time; the snapshot it   *)
(* tests and copies an index from was taken before the prompt, so the      *)
(* index is any track.  The renderer answers every request with success    *)
(* or failure, and a position query with any sample.                       *)
(***************************************************************************)
EXTENDS Integers, Sequences, FiniteSets, TLC

\* ------------------------------------------------------------- bounds
MaxQueue == 1
MaxBurst == 3
NumTracks == 3

\* -------------------------------------------------- program constants
\* A faulty variant: main starts a second command worker.
TwoWorkers == 1 + 1

\* main, lines 1256-1259: one CommandWorkerThread is created.
NumWorkers == 1
GraceStart == 20
JumpFrom == 50
JumpTo == 30
NearEnd == 20

Workers == 1..NumWorkers

\* The playlist: files[i] is the extension of track i (list_audio_files
\* admits .ogg, which get_format_from_extension does not know).
Extensions == <<"ogg", "wav", "flac">>
files == [i \in 0..(NumTracks - 1) |-> Extensions[(i % Len(Extensions)) + 1]]

get_format_from_extension(ext) ==
    CASE ext = "wav" -> "wav"
      [] ext = "flac" -> "flac"
      [] OTHER -> "None"

\* Number of descriptor variants set_avtransport_uri_variants tries.
NumVariants(format_type) ==
    CASE format_type = "flac" -> 1
      [] OTHER -> 4

\* Samples <<position, duration>> the renderer may report (tenths of a
\* second): nothing loaded, and a track of 8.0s at its start, past the start
\* grace, and within 2.0s of its end.
Samples == {<<0, 0>>, <<0, 80>>, <<25, 80>>, <<60, 80>>}

\* ----------------------------------------------------------- commands
CommandType == {"PLAY", "PAUSE", "STOP", "NEXT", "PREVIOUS", "SET_TRACK", "QUIT"}

\* Command.args is a dict that holds track_idx or nothing.
Command(type, args) == [type |-> type, args |-> args]
NoCmd == Command("NONE", {})
PlayCommand(i) == Command("PLAY", {i})

\* dict.get('track_idx', default)
ArgsGet(args, default) == IF args = {} THEN default ELSE CHOOSE x \in args : TRUE

\* The commands a caller of put can build: PLAY and SET_TRACK carry a
\* track_idx, in range or one off either end.
TrackArgs == (0 - 1)..NumTracks
Commands ==
    {Command(k, {}) : k \in {"PAUSE", "STOP", "NEXT", "PREVIOUS", "QUIT"}}
    \cup {Command(k, {i}) : k \in {"PLAY", "SET_TRACK"}, i \in TrackArgs}

VARIABLES
    state,              \* SHARED_STATE.state
    queue,              \* COMMAND_QUEUE.queue
    last_command_time,  \* COMMAND_QUEUE.last_command_time
    running,            \* CommandWorkerThread.running
    worker_pc,          \* where each worker is in run / its handler
    cmd,                \* the command a worker is handling
    attempt,            \* set_avtransport_uri_variants: loop index i
    ok,                 \* _handle_play: ok
    open_calls,         \* Stop/Pause/Play/SetAVTransportURI requests of the
                        \* handlers that were sent and have not returned
    poll_pc,            \* where the poller is in its cycle
    track_started,      \* PollingThread.run: track_started
    track_start_time,   \* PollingThread.run: track_start_time
    burst,              \* history: puts of one kind since the queue was empty
    client,             \* the Protocol Client function in progress
    format_type,        \* set_avtransport_uri_variants: format_type
    variant,            \* set_avtransport_uri_variants: i of the second loop
    requests,           \* history: actions requested by the call in progress
    action,             \* send_soap_request: action
    retries,            \* send_soap_request: retries
    outcomes,           \* history: outcome of each attempt of the request
    waits,              \* history: multiples of backoff slept by the request
    soap_result,        \* send_soap_request: the pair returned
    result,             \* what the Protocol Client function returned
    ui,                 \* interactive_ui and main: the console's position
    quit_stop,          \* history: the Stop request the quit choice asked for
    lock,               \* SharedState._lock: the call that holds it
    pending,            \* update: the keys of updates_dict not yet written
    writing,            \* update: updates_dict
    snapshot,           \* get_all: the copy returned last
    committed,          \* history: the state when the lock was last released
    request,            \* StaticAudioHandler: self.path of the GET in hand
    info,               \* do_GET: sf.info of the sibling file
    response,           \* do_GET: what is sent back
    stale_sample        \* history: a Play reset came after the poller's sample

qvars == <<queue, last_command_time>>
wvars == <<running, worker_pc, cmd, attempt, ok, open_calls>>
pvars == <<poll_pc, track_started, track_start_time>>
svars == <<client, format_type, variant, requests, action, retries, outcomes,
           waits, soap_result, result>>
evars == <<state, queue, last_command_time, running, worker_pc, cmd, attempt, ok,
           open_calls,
           poll_pc, track_started, track_start_time, burst, ui, quit_stop,
           lock, pending, writing, snapshot, committed,
           request, info, response, stale_sample>>
hvars == <<request, info, response>>
gvars == <<stale_sample>>
uvars == <<ui, quit_stop>>
lvars == <<lock, pending, writing, snapshot, committed>>

\* Media Server: no sibling file probed, no request in hand, and the
\* responses.  sent is the file whose bytes make the body (none for an
\* error), synthesized tells a re-encoded stream from a file sent as it is,
\* lines are the status lines written to the connection, in order.
NoInfo == [frames |-> 0, channels |-> 0, subtype |-> ""]
NoRequest == [absolute |-> FALSE, segs |-> <<>>, fault |-> "idle"]
Response(status, type, length, sent, synth, riff, data) ==
    [status |-> status, content_type |-> type, content_length |-> length,
     sent |-> sent, synthesized |-> synth, riff_size |-> riff, data_size |-> data,
     lines |-> IF status = 0 THEN <<>> ELSE <<status>>]
NoResponse == Response(0, "", 0, <<>>, FALSE, 0, 0)
vars == <<evars, svars>>

\* No Protocol Client call in progress.
NoCall ==
    /\ client = "None"
    /\ format_type = "None"
    /\ variant = 0
    /\ requests = <<>>
    /\ action = "None"
    /\ retries = 0
    /\ outcomes = <<>>
    /\ waits = <<>>
    /\ soap_result = <<"None", "None">>
    /\ result = "None yet"

SharedStateInit ==
    [position |-> 0, duration |-> 0, is_playing |-> FALSE,
     current_track_idx |-> 0, transport_state |-> "STOPPED", error |-> "None",
     play_all_enabled |-> FALSE, last_position |-> 0,
     track_started |-> FALSE, track_start_time |-> "zero"]

Init ==
    /\ state = SharedStateInit
    /\ queue = <<>>
    /\ last_command_time = "stale"
    /\ running = [w \in Workers |-> TRUE]
    /\ worker_pc = [w \in Workers |-> "idle"]
    /\ cmd = [w \in Workers |-> NoCmd]
    /\ attempt = [w \in Workers |-> 0]
    /\ ok = [w \in Workers |-> FALSE]
    /\ open_calls = 0
    /\ poll_pc = "check"
    /\ track_started = FALSE
    /\ track_start_time = "zero"
    /\ burst = <<>>
    /\ NoCall
    /\ ui = "menu"
    /\ quit_stop = "none"
    /\ lock = "free"
    /\ pending = <<>>
    /\ writing = <<>>
    /\ snapshot = state
    /\ committed = state
    /\ request = NoRequest
    /\ info = NoInfo
    /\ response = NoResponse
    /\ stale_sample = FALSE

\* ------------------------------------------------------ DebouncedQueue
\* A faulty variant: the debounce compares the whole command, payload included.
DebouncedSamePayload(q, lct, command) ==
    q # <<>> /\ q[Len(q)] = command /\ lct # "stale"

\* put: the test that drops a command.
Debounced(q, lct, command) ==
    /\ q # <<>>
    /\ q[Len(q)].type = command.type
    /\ lct # "stale"

QueueAfterPut(q, lct, command) ==
    IF Debounced(q, lct, command) THEN q ELSE Append(q, command)

StampAfterPut(q, lct, command) ==
    IF Debounced(q, lct, command) THEN lct ELSE "fresh"

Put(command) ==
    /\ queue' = QueueAfterPut(queue, last_command_time, command)
    /\ last_command_time' = StampAfterPut(queue, last_command_time, command)

\* A faulty variant: get pops the newest command (pop instead of popleft).
QueueGetNewest(q) == <<q[Len(q)], SubSeq(q, 1, Len(q) - 1)>>

\* get: the command returned and the queue left (popleft).
QueueGet(q) == <<Head(q), Tail(q)>>

\* ----------------------------------------------------- SharedState.update
Update(fields) ==
    state' = [k \in DOMAIN state |-> IF k \in DOMAIN fields THEN fields[k] ELSE state[k]]

\* ------------------------------------------------- CommandWorkerThread
\* A Stop request went to the renderer: one the quit choice waits for is no
\* longer owed.
StopRequested(q) == IF q = "owed" THEN "sent" ELSE q

Idle(w) ==
    /\ worker_pc' = [worker_pc EXCEPT ![w] = "idle"]
    /\ cmd' = [cmd EXCEPT ![w] = NoCmd]
    /\ attempt' = [attempt EXCEPT ![w] = 0]
    /\ ok' = [ok EXCEPT ![w] = FALSE]

Goto(w, label) == worker_pc' = [worker_pc EXCEPT ![w] = label]

\* run: the handler a command type is dispatched to.
Dispatch(type) ==
    CASE type = "PLAY" -> "play"
      [] type = "PAUSE" -> "pause"
      [] type = "STOP" -> "stop"
      [] type = "NEXT" -> "next"
      [] type = "PREVIOUS" -> "previous"
      [] type = "SET_TRACK" -> "set_track"
      [] OTHER -> "idle"

\* A faulty variant: the loop does not test the running flag.
LoopRunsForever(w) == TRUE

\* run, line 636: while self.running.
LoopRuns(w) == running[w]

\* run: cmd = COMMAND_QUEUE.get(...), then the dispatch; QUIT clears running
\* at once, _handle_pause and _handle_stop send their request at once.  The
\* loop calls get only after the previous handler returned.
WorkerGet(w) ==
    /\ LoopRuns(w)
    /\ worker_pc[w] = "idle"
    /\ queue # <<>>
    /\ LET got == QueueGet(queue) IN
        /\ queue' = got[2]
        /\ IF got[1].type = "QUIT"
           THEN /\ running' = [running EXCEPT ![w] = FALSE]
                /\ UNCHANGED <<worker_pc, cmd>>
           ELSE /\ cmd' = [cmd EXCEPT ![w] = got[1]]
                /\ Goto(w, Dispatch(got[1].type))
                /\ UNCHANGED running
        /\ open_calls' = IF got[1].type \in {"PAUSE", "STOP"}
                         THEN open_calls + 1 ELSE open_calls
    /\ UNCHANGED <<state, last_command_time, attempt, ok, pvars, burst, svars, lvars, hvars, gvars, uvars>>

\* _handle_play: the index test that rejects a command.
InvalidIndex(track_idx) == track_idx < 0 \/ track_idx >= NumTracks

\* A faulty variant: the rejection reports itself in the error slot.
RejectPlayWithError(w) ==
    /\ Idle(w)
    /\ Update([error |-> "Invalid track index"])
    /\ UNCHANGED open_calls

\* A faulty variant: the rejection stores the index it rejects.
RejectPlayStoresIndex(w) ==
    /\ Idle(w)
    /\ Update([current_track_idx |-> ArgsGet(cmd[w].args, state.current_track_idx)])
    /\ UNCHANGED open_calls

\* _handle_play, lines 668-670: the rejection.
RejectPlay(w) ==
    /\ Idle(w)
    /\ UNCHANGED <<state, open_calls>>

\* The poller's cycle holds a position sample it has not finished with.
HoldsSample == poll_pc \notin {"check", "query"}

\* This execution of _handle_play resets the heuristic fields while the
\* poller's cycle holds a sample.
ResetsUnderSample(w) ==
    LET track_idx == ArgsGet(cmd[w].args, state.current_track_idx) IN
        /\ ~InvalidIndex(track_idx)
        /\ get_format_from_extension(files[track_idx]) # "None"
        /\ HoldsSample

\* _handle_play up to the first protocol call (Stop, line 698).
PlayStart(w) ==
    /\ worker_pc[w] = "play"
    /\ LET track_idx == ArgsGet(cmd[w].args, state.current_track_idx) IN
        IF InvalidIndex(track_idx)
        THEN RejectPlay(w)
        ELSE IF get_format_from_extension(files[track_idx]) = "None"
        THEN /\ Update([error |-> "Unsupported format"])
             /\ Idle(w)
             /\ UNCHANGED open_calls
        ELSE /\ Update([current_track_idx |-> track_idx, is_playing |-> TRUE,
                        transport_state |-> "TRANSITIONING", track_started |-> FALSE,
                        track_start_time |-> "zero", last_position |-> 0])
             /\ Goto(w, "play_stop")
             /\ open_calls' = open_calls + 1
             /\ UNCHANGED <<cmd, attempt, ok>>
    /\ stale_sample' = (stale_sample \/ ResetsUnderSample(w))
    /\ UNCHANGED <<qvars, running, pvars, burst, svars, lvars, hvars, uvars>>

\* stop_upnp of line 698 returns (its result is not read); sleep 0.3;
\* set_avtransport_uri_variants begins with its own stop_upnp.
PlayStop(w) ==
    /\ worker_pc[w] = "play_stop"
    /\ Goto(w, "variants_stop")
    /\ last_command_time' = "stale"
    /\ quit_stop' = StopRequested(quit_stop)
    /\ UNCHANGED <<state, queue, running, cmd, attempt, ok, open_calls, pvars, burst, svars, lvars, hvars, gvars, ui>>

\* set_avtransport_uri_variants: stop_upnp returns; sleep 0.8; the first
\* variant is sent.
VariantsStop(w) ==
    /\ worker_pc[w] = "variants_stop"
    /\ Goto(w, "set_uri")
    /\ attempt' = [attempt EXCEPT ![w] = 1]
    /\ last_command_time' = "stale"
    /\ quit_stop' = StopRequested(quit_stop)
    /\ UNCHANGED <<state, queue, running, cmd, ok, open_calls, pvars, burst, svars, lvars, hvars, gvars, ui>>

\* set_avtransport_uri_variants: one variant's set_avtransport_uri returns r;
\* True ends the loop, False sleeps 1.0 and tries the next variant, if any.
SetUri(w) ==
    /\ worker_pc[w] = "set_uri"
    /\ \E r \in BOOLEAN :
        LET track_idx == ArgsGet(cmd[w].args, state.current_track_idx)
            n == NumVariants(get_format_from_extension(files[track_idx])) IN
        IF r
        THEN /\ ok' = [ok EXCEPT ![w] = TRUE]
             /\ Goto(w, "uri_done")
             /\ open_calls' = open_calls - 1
             /\ UNCHANGED <<attempt, last_command_time>>
        ELSE IF attempt[w] < n
        THEN /\ attempt' = [attempt EXCEPT ![w] = attempt[w] + 1]
             /\ last_command_time' = "stale"
             /\ UNCHANGED <<ok, worker_pc, open_calls>>
        ELSE /\ ok' = [ok EXCEPT ![w] = FALSE]
             /\ Goto(w, "uri_done")
             /\ open_calls' = open_calls - 1
             /\ last_command_time' = "stale"
             /\ UNCHANGED attempt
    /\ UNCHANGED <<state, queue, running, cmd, pvars, burst, svars, lvars, hvars, gvars, uvars>>

\* A faulty variant: play_upnp is sent whatever the variants returned.
UriDoneAlwaysPlays(w) ==
    /\ worker_pc[w] = "uri_done"
    /\ Goto(w, "play_call")
    /\ open_calls' = open_calls + 1
    /\ last_command_time' = "stale"
    /\ UNCHANGED <<state, cmd, attempt, ok>>
    /\ UNCHANGED <<queue, running, pvars, burst, svars, lvars, hvars, gvars, uvars>>

\* _handle_play, lines 710-717: the failure of every variant is recorded;
\* otherwise sleep 0.3 and play_upnp is sent.
UriDone(w) ==
    /\ worker_pc[w] = "uri_done"
    /\ IF ~ok[w]
       THEN /\ Update([is_playing |-> FALSE, error |-> "SetAVTransportURI failed"])
            /\ Idle(w)
            /\ UNCHANGED <<last_command_time, open_calls>>
       ELSE /\ Goto(w, "play_call")
            /\ open_calls' = open_calls + 1
            /\ last_command_time' = "stale"
            /\ UNCHANGED <<state, cmd, attempt, ok>>
    /\ UNCHANGED <<queue, running, pvars, burst, svars, lvars, hvars, gvars, uvars>>

\* A faulty variant: play_upnp has no timeout and never returns.
PlayCallHangs(w) ==
    /\ worker_pc[w] = "play_call"
    /\ FALSE
    /\ UNCHANGED vars

\* play_upnp returns r.
PlayCall(w) ==
    /\ worker_pc[w] = "play_call"
    /\ \E r \in BOOLEAN : ok' = [ok EXCEPT ![w] = r]
    /\ Goto(w, "play_done")
    /\ open_calls' = open_calls - 1
    /\ UNCHANGED <<state, qvars, running, cmd, attempt, pvars, burst, svars, lvars, hvars, gvars, uvars>>

\* A faulty variant: a failed Play records the error and keeps is_playing.
PlayDoneKeepsPlaying(w) ==
    /\ worker_pc[w] = "play_done"
    /\ IF ok[w]
       THEN Update([transport_state |-> "PLAYING"])
       ELSE Update([error |-> "Play failed"])
    /\ Idle(w)
    /\ UNCHANGED <<qvars, running, open_calls, pvars, burst, svars, lvars, hvars, gvars, uvars>>

\* _handle_play, lines 718-724.
PlayDone(w) ==
    /\ worker_pc[w] = "play_done"
    /\ IF ok[w]
       THEN Update([transport_state |-> "PLAYING"])
       ELSE Update([is_playing |-> FALSE, error |-> "Play failed"])
    /\ Idle(w)
    /\ UNCHANGED <<qvars, running, open_calls, pvars, burst, svars, lvars, hvars, gvars, uvars>>

\* A faulty variant: a failed Pause is reported in the error slot.
HandlePauseReportsFailure(w) ==
    /\ worker_pc[w] = "pause"
    /\ \E r \in BOOLEAN :
        IF r THEN Update([is_playing |-> FALSE, transport_state |-> "PAUSED"])
        ELSE Update([error |-> "Pause failed"])
    /\ Idle(w)
    /\ open_calls' = open_calls - 1
    /\ UNCHANGED <<qvars, running, pvars, burst, svars, lvars, hvars, gvars, uvars>>

\* _handle_pause: pause_upnp returns r.
HandlePause(w) ==
    /\ worker_pc[w] = "pause"
    /\ \E r \in BOOLEAN :
        IF r THEN Update([is_playing |-> FALSE, transport_state |-> "PAUSED"])
        ELSE UNCHANGED state
    /\ Idle(w)
    /\ open_calls' = open_calls - 1
    /\ UNCHANGED <<qvars, running, pvars, burst, svars, lvars, hvars, gvars, uvars>>

\* A faulty variant: a successful Stop stores the phase and leaves is_playing.
HandleStopKeepsPlaying(w) ==
    /\ worker_pc[w] = "stop"
    /\ \E r \in BOOLEAN :
        IF r THEN Update([transport_state |-> "STOPPED"])
        ELSE UNCHANGED state
    /\ Idle(w)
    /\ open_calls' = open_calls - 1
    /\ quit_stop' = StopRequested(quit_stop)
    /\ UNCHANGED <<qvars, running, pvars, burst, svars, lvars, hvars, gvars, ui>>

\* _handle_stop: stop_upnp returns r.
HandleStop(w) ==
    /\ worker_pc[w] = "stop"
    /\ \E r \in BOOLEAN :
        IF r THEN Update([is_playing |-> FALSE, transport_state |-> "STOPPED"])
        ELSE UNCHANGED state
    /\ Idle(w)
    /\ open_calls' = open_calls - 1
    /\ quit_stop' = StopRequested(quit_stop)
    /\ UNCHANGED <<qvars, running, pvars, burst, svars, lvars, hvars, gvars, ui>>

\* _handle_next
HandleNext(w) ==
    /\ worker_pc[w] = "next"
    /\ LET current == state.current_track_idx IN
        IF current < NumTracks - 1
        THEN Put(PlayCommand(current + 1))
        ELSE UNCHANGED qvars
    /\ Idle(w)
    /\ UNCHANGED <<state, running, open_calls, pvars, burst, svars, lvars, hvars, gvars, uvars>>

\* _handle_previous
HandlePrevious(w) ==
    /\ worker_pc[w] = "previous"
    /\ LET current == state.current_track_idx IN
        IF current > 0
        THEN Put(PlayCommand(current - 1))
        ELSE UNCHANGED qvars
    /\ Idle(w)
    /\ UNCHANGED <<state, running, open_calls, pvars, burst, svars, lvars, hvars, gvars, uvars>>

\* _handle_set_track
HandleSetTrack(w) ==
    /\ worker_pc[w] = "set_track"
    /\ Put(PlayCommand(ArgsGet(cmd[w].args, 0)))
    /\ Idle(w)
    /\ UNCHANGED <<state, running, open_calls, pvars, burst, svars, lvars, hvars, gvars, uvars>>

\* ------------------------------------------------------- PollingThread
\* A faulty variant: the start grace is the jump threshold (3.0 s).
StartsTrackLate(started, p) == ~started /\ p > JumpTo

\* run, line 555: the sample that marks the track as started.
StartsTrack(started, p) == ~started /\ p > GraceStart

\* run, line 566: time.time() - track_start_time > 3.0
GraceOver(start_time) == start_time # "fresh"

\* A faulty variant: the backward jump counts from exactly 5.0s.
TrackEndedFromFive(last_pos, p, d) ==
    \/ last_pos >= JumpFrom /\ p < JumpTo /\ d > 0
    \/ d > 0 /\ p >= d - NearEnd

\* run, lines 569-575: the two end conditions.
TrackEnded(last_pos, p, d) ==
    \/ last_pos > JumpFrom /\ p < JumpTo /\ d > 0
    \/ d > 0 /\ p >= d - NearEnd

\* run: pos and dur are the sample written in lines 544-548; only the poller
\* writes these two fields, so the locals equal them for the rest of the cycle.
pos == state.position
dur == state.duration

\* last_command_time once track_start_time is stamped (lines 556-559).
AfterMark(lct) ==
    CASE lct = "fresh" -> "fresh_early"
      [] lct = "fresh_cycle" -> "fresh_early_cycle"
      [] OTHER -> lct

\* last_command_time once a poll cycle starts (line 537): cycles start at
\* least the interval of 970ms apart (lines 595-599), so a stamp older than
\* the cycle before is out of the window.
AfterCycleStart(lct) ==
    CASE lct = "fresh" -> "fresh_cycle"
      [] lct = "fresh_early" -> "fresh_early_cycle"
      [] OTHER -> "stale"

\* last_command_time once 3.0s have passed since track_start_time.
AfterGrace(lct) ==
    IF lct \in {"fresh_early", "fresh_early_cycle"} THEN "stale" ELSE lct

\* The locals once their values are no longer read.
PollReset ==
    /\ track_started' = FALSE
    /\ track_start_time' = "zero"

\* The poller's paused flag: False from __init__ on, since nothing calls
\* pause_polling.
paused == FALSE

\* A faulty variant: the poller queries the renderer whether or not
\* something plays.
PollCheckAlwaysPolls ==
    /\ poll_pc = "check"
    /\ Len(queue) <= MaxQueue
    /\ poll_pc' = "query"
    /\ last_command_time' = AfterCycleStart(last_command_time)
    /\ UNCHANGED <<state, queue, wvars, track_started, track_start_time, burst, svars, lvars, hvars, gvars, uvars>>

\* run, lines 532-538: idle (sleep 0.1) while nothing plays; otherwise
\* get_position_info is sent.  A cycle starts only while at most MaxQueue
\* commands wait, which bounds the queue.
PollCheck ==
    /\ poll_pc = "check"
    /\ Len(queue) <= MaxQueue
    /\ IF state.is_playing /\ ~paused
       THEN /\ poll_pc' = "query"
            /\ last_command_time' = AfterCycleStart(last_command_time)
       ELSE /\ poll_pc' = "check"
            /\ last_command_time' = "stale"
    /\ UNCHANGED <<state, queue, wvars, track_started, track_start_time, burst, svars, lvars, hvars, gvars, uvars>>

\* A faulty variant: a query without data stores a position of zero.
PollQueryZeroesOnFailure(samples) ==
    /\ poll_pc = "query"
    /\ \/ \E sample \in samples :
            /\ Update([position |-> sample[1], duration |-> sample[2]])
            /\ poll_pc' = "read_play_all"
       \/ /\ poll_pc' = "check"
          /\ Update([position |-> 0, last_position |-> 0])
    /\ stale_sample' = FALSE
    /\ UNCHANGED <<qvars, wvars, track_started, track_start_time, burst, svars, lvars, hvars, uvars>>

\* get_position_info returns: with the sample (lines 540-548), or without
\* data (a failed request raises in line 538, a parse error gives
\* (False, None)); either failure ends the cycle with nothing written.
PollQueryOf(samples) ==
    /\ poll_pc = "query"
    /\ \/ \E sample \in samples :
            /\ Update([position |-> sample[1], duration |-> sample[2]])
            /\ poll_pc' = "read_play_all"
       \/ /\ poll_pc' = "check"
          /\ UNCHANGED state
    /\ stale_sample' = FALSE
    /\ UNCHANGED <<qvars, wvars, track_started, track_start_time, burst, svars, lvars, hvars, uvars>>

PollQuery == PollQueryOf(Samples)

\* line 550
PollReadPlayAll ==
    /\ poll_pc = "read_play_all"
    /\ poll_pc' = IF state.play_all_enabled THEN "read_started" ELSE "set_last"
    /\ UNCHANGED <<state, qvars, wvars, track_started, track_start_time, burst, svars, lvars, hvars, gvars, uvars>>

\* line 551
PollReadStarted ==
    /\ poll_pc = "read_started"
    /\ track_started' = state.track_started
    /\ poll_pc' = "read_start_time"
    /\ UNCHANGED <<state, qvars, wvars, track_start_time, burst, svars, lvars, hvars, gvars, uvars>>

\* line 552
PollReadStartTime ==
    /\ poll_pc = "read_start_time"
    /\ track_start_time' = state.track_start_time
    /\ poll_pc' = "read_last_pos"
    /\ UNCHANGED <<state, qvars, wvars, track_started, burst, svars, lvars, hvars, gvars, uvars>>

\* line 553, and the tests of lines 555, 563, 566 and 579 on the values read.
PollReadLastPos ==
    /\ poll_pc = "read_last_pos"
    /\ LET last_pos == state.last_position IN
        poll_pc' =
            IF StartsTrack(track_started, pos) THEN "mark_started"
            ELSE IF track_started /\ GraceOver(track_start_time)
                    /\ TrackEnded(last_pos, pos, dur) THEN "track_ended"
            ELSE "set_last"
    /\ PollReset
    /\ UNCHANGED <<state, qvars, wvars, burst, svars, lvars, hvars, gvars, uvars>>

\* lines 556-559
PollMarkStarted ==
    /\ poll_pc = "mark_started"
    /\ Update([track_started |-> TRUE, track_start_time |-> "fresh"])
    /\ poll_pc' = "set_last"
    /\ last_command_time' = AfterMark(last_command_time)
    /\ UNCHANGED <<queue, wvars, track_started, track_start_time, burst, svars, lvars, hvars, gvars, uvars>>

\* A faulty variant: the last index counts as having a next track.
HasNextInclusive(current_idx, total_tracks) == current_idx <= total_tracks - 1

\* run, line 583: a next track exists.
HasNext(current_idx, total_tracks) == current_idx < total_tracks - 1

\* lines 580-583 (total_tracks is len(files) from the start of the console)
PollTrackEnded ==
    /\ poll_pc = "track_ended"
    /\ poll_pc' = IF HasNext(state.current_track_idx, NumTracks)
                  THEN "clear_started" ELSE "clear_play_all"
    /\ UNCHANGED <<state, qvars, wvars, track_started, track_start_time, burst, svars, lvars, hvars, gvars, uvars>>

\* line 586
PollClearStarted ==
    /\ poll_pc = "clear_started"
    /\ Update([track_started |-> FALSE])
    /\ poll_pc' = "put_next"
    /\ UNCHANGED <<qvars, wvars, track_started, track_start_time, burst, svars, lvars, hvars, gvars, uvars>>

\* A faulty variant: the poller requests the next track of the renderer
\* itself.
PollPlaysNext ==
    /\ poll_pc = "put_next"
    /\ open_calls' = open_calls + 1
    /\ poll_pc' = "set_last"
    /\ UNCHANGED <<state, qvars, running, worker_pc, cmd, attempt, ok,
                   track_started, track_start_time, burst, svars, lvars, hvars, gvars, uvars>>

\* line 587
PollPutNext ==
    /\ poll_pc = "put_next"
    /\ Put(Command("NEXT", {}))
    /\ poll_pc' = "set_last"
    /\ UNCHANGED <<state, wvars, track_started, track_start_time, burst, svars, lvars, hvars, gvars, uvars>>

\* line 589
PollClearPlayAll ==
    /\ poll_pc = "clear_play_all"
    /\ Update([play_all_enabled |-> FALSE])
    /\ poll_pc' = "set_last"
    /\ UNCHANGED <<qvars, wvars, track_started, track_start_time, burst, svars, lvars, hvars, gvars, uvars>>

\* line 593, then the sleep to the next cycle
PollSetLast ==
    /\ poll_pc = "set_last"
    /\ Update([last_position |-> pos])
    /\ poll_pc' = "check"
    /\ stale_sample' = FALSE
    /\ UNCHANGED <<qvars, wvars, track_started, track_start_time, burst, svars, lvars, hvars, uvars>>

\* ------------------------------------------------------------- console
\* The track indices of the file list.
Tracks == 0..(NumTracks - 1)

\* COMMAND_QUEUE.put(command) by any caller.
Enqueue(command) ==
    /\ Len(queue) < MaxQueue
    /\ Put(command)
    /\ UNCHANGED <<state, wvars, pvars, burst, svars, lvars, hvars, gvars, uvars>>

\* interactive_ui, choice 'a' with a start track in range (play_all_start_idx
\* is only displayed and is left out).
ChoiceAll(start_idx) ==
    /\ ui = "menu"
    /\ Len(queue) < MaxQueue
    /\ Update([play_all_enabled |-> TRUE, last_position |-> 0,
               track_started |-> FALSE, track_start_time |-> "zero"])
    /\ Put(Command("SET_TRACK", {start_idx}))
    /\ UNCHANGED <<wvars, pvars, burst, svars, lvars, hvars, gvars, uvars>>

\* interactive_ui, choice 'p': the index is the snapshot's.
ChoicePlay(current_idx) ==
    /\ ui = "menu"
    /\ Len(queue) < MaxQueue
    /\ Put(PlayCommand(current_idx))
    /\ UNCHANGED <<state, wvars, pvars, burst, svars, lvars, hvars, gvars, uvars>>

\* interactive_ui, choice 's'.
ChoiceStop ==
    /\ ui = "menu"
    /\ Len(queue) < MaxQueue
    /\ Update([play_all_enabled |-> FALSE])
    /\ Put(Command("STOP", {}))
    /\ UNCHANGED <<wvars, pvars, burst, svars, lvars, hvars, gvars, uvars>>

\* interactive_ui, choice 'n': the test is on the snapshot's index.
ChoiceNext(current_idx) ==
    /\ ui = "menu"
    /\ Len(queue) < MaxQueue
    /\ current_idx < NumTracks - 1
    /\ Put(Command("NEXT", {}))
    /\ UNCHANGED <<state, wvars, pvars, burst, svars, lvars, hvars, gvars, uvars>>

\* interactive_ui, choice 'b': the test is on the snapshot's index.
ChoicePrevious(current_idx) ==
    /\ ui = "menu"
    /\ Len(queue) < MaxQueue
    /\ current_idx > 0
    /\ Put(Command("PREVIOUS", {}))
    /\ UNCHANGED <<state, wvars, pvars, burst, svars, lvars, hvars, gvars, uvars>>

\* interactive_ui, a track number in range.
ChoiceNumber(sel) ==
    /\ ui = "menu"
    /\ Len(queue) < MaxQueue
    /\ Update([play_all_enabled |-> FALSE])
    /\ Put(Command("SET_TRACK", {sel}))
    /\ UNCHANGED <<wvars, pvars, burst, svars, lvars, hvars, gvars, uvars>>

\* interactive_ui, choice 'q', up to the sleep or the break; the snapshot is
\* one taken just before the choice.
ChoiceQuit ==
    /\ ui = "menu"
    /\ Len(queue) <= MaxQueue
    /\ IF state.is_playing
       THEN /\ Update([play_all_enabled |-> FALSE])
            /\ Put(Command("STOP", {}))
            /\ ui' = "quit_sleep"
            /\ quit_stop' = "owed"
       ELSE /\ Put(Command("QUIT", {}))
            /\ ui' = "shutdown"
            /\ UNCHANGED <<state, quit_stop>>
    /\ UNCHANGED <<wvars, pvars, burst, svars, lvars, hvars, gvars>>

\* interactive_ui, lines 1114-1117: the sleep of 0.5 is over, in which a
\* worker waiting in get (it looks every 0.01) has taken what was queued;
\* QUIT is put and the loop left.
QuitPut ==
    /\ ui = "quit_sleep"
    /\ \A w \in Workers : ~(running[w] /\ worker_pc[w] = "idle" /\ queue # <<>>)
    /\ queue' = QueueAfterPut(queue, "stale", Command("QUIT", {}))
    /\ last_command_time' = StampAfterPut(queue, "stale", Command("QUIT", {}))
    /\ ui' = "shutdown"
    /\ UNCHANGED <<state, wvars, pvars, burst, svars, lvars, hvars, gvars, quit_stop>>

\* main, lines 1271-1274: command_worker.stop().
Shutdown ==
    /\ ui = "shutdown"
    /\ running' = [w \in Workers |-> FALSE]
    /\ ui' = "exit"
    /\ UNCHANGED <<state, qvars, worker_pc, cmd, attempt, ok, open_calls, pvars,
                   burst, svars, lvars, hvars, gvars, quit_stop>>

\* The worker's positions it passes without waiting for a request or in a
\* sleep.
PassingPcs == {"play", "next", "previous", "set_track", "play_done"}

\* main, lines 1276-1282, and the end of the process: httpd.shutdown()
\* returns, main returns, and the interpreter exits without joining the
\* worker, a daemon thread (line 626), which ends where it is.
ProcessExit ==
    /\ ui = "exit"
    /\ \A w \in Workers : worker_pc[w] \notin PassingPcs
    /\ ui' = "exited"
    /\ worker_pc' = [w \in Workers |->
                        IF worker_pc[w] = "idle" THEN "idle" ELSE "killed"]
    /\ open_calls' = 0
    /\ UNCHANGED <<state, qvars, running, cmd, attempt, ok, pvars, burst, svars,
                   lvars, hvars, gvars, quit_stop>>

\* interactive_ui, lines 1094-1096, with the display taken as one step: the
\* error shown is cleared.
ClearError ==
    /\ ui = "menu"
    /\ state.error # "None"
    /\ Update([error |-> "None"])
    /\ UNCHANGED <<qvars, wvars, pvars, burst, svars, lvars, hvars, gvars, uvars>>

\* interactive_ui, line 1060: the loop takes its snapshot and begins to
\* print the tracks and the status from it.
ConsoleSnapshot ==
    /\ ui = "menu"
    /\ lock = "free"
    /\ snapshot' = state
    /\ ui' = "display"
    /\ UNCHANGED <<state, qvars, wvars, pvars, burst, svars, lock, pending, writing,
                   committed, hvars, gvars, quit_stop>>

\* interactive_ui, lines 1094-1096: if the snapshot holds an error it is
\* printed and the slot is cleared; the prompt follows, and the snapshot is
\* not read again before the next one is taken.
ConsoleClear ==
    /\ ui = "display"
    /\ IF snapshot.error # "None" THEN Update([error |-> "None"])
       ELSE UNCHANGED state
    /\ snapshot' = SharedStateInit
    /\ ui' = "menu"
    /\ UNCHANGED <<qvars, wvars, pvars, burst, svars, lock, pending, writing,
                   committed, hvars, gvars, quit_stop>>

\* ---------------------------------------------------------------- time
\* 100ms pass since the last accepted put.
DebounceElapse ==
    /\ last_command_time # "stale"
    /\ last_command_time' = "stale"
    /\ burst' = <<>>
    /\ UNCHANGED <<state, queue, wvars, pvars, svars, lvars, hvars, gvars, uvars>>

\* 3.0s pass since the stamp of lines 556-559.
GraceElapse ==
    /\ state.track_start_time = "fresh" \/ track_start_time = "fresh"
    /\ IF state.track_start_time = "fresh"
       THEN Update([track_start_time |-> "stale"])
       ELSE UNCHANGED state
    /\ track_start_time' = IF track_start_time = "fresh" THEN "stale" ELSE track_start_time
    /\ last_command_time' = AfterGrace(last_command_time)
    /\ UNCHANGED <<queue, wvars, poll_pc, track_started, burst, svars, lvars, hvars, gvars, uvars>>

\* ------------------------------------------------------ specifications
\* The player in sequential play: console, poller and worker.
Next ==
    \/ \E w \in Workers :
        \/ WorkerGet(w)
        \/ PlayStart(w)
        \/ PlayStop(w)
        \/ VariantsStop(w)
        \/ SetUri(w)
        \/ UriDone(w)
        \/ PlayCall(w)
        \/ PlayDone(w)
        \/ HandleStop(w)
        \/ HandleNext(w)
        \/ HandlePrevious(w)
        \/ HandleSetTrack(w)
    \/ PollCheck
    \/ PollQuery
    \/ PollReadPlayAll
    \/ PollReadStarted
    \/ PollReadStartTime
    \/ PollReadLastPos
    \/ PollMarkStarted
    \/ PollTrackEnded
    \/ PollClearStarted
    \/ PollPutNext
    \/ PollClearPlayAll
    \/ PollSetLast
    \/ \E i \in Tracks :
        \/ ChoiceAll(i)
        \/ ChoicePlay(i)
        \/ ChoiceNext(i)
        \/ ChoicePrevious(i)
        \/ ChoiceNumber(i)
    \/ ChoiceStop
    \/ ClearError
    \/ DebounceElapse
    \/ GraceElapse

Spec == Init /\ [][Next]_vars

\* The command pipeline alone, fed with any command.
NextPipeline ==
    \/ \E w \in Workers :
        \/ WorkerGet(w)
        \/ PlayStart(w)
        \/ PlayStop(w)
        \/ VariantsStop(w)
        \/ SetUri(w)
        \/ UriDone(w)
        \/ PlayCall(w)
        \/ PlayDone(w)
        \/ HandlePause(w)
        \/ HandleStop(w)
        \/ HandleNext(w)
        \/ HandlePrevious(w)
        \/ HandleSetTrack(w)
    \/ \E c \in Commands : Enqueue(c)
    \/ ClearError
    \/ DebounceElapse

SpecPipeline == Init /\ [][NextPipeline]_vars

\* The pipeline with a worker thread that keeps being scheduled and whose
\* requests all return, with either outcome, by their timeout.
PipelineWorker(w) ==
    \/ WorkerGet(w)
    \/ PlayStart(w)
    \/ PlayStop(w)
    \/ VariantsStop(w)
    \/ SetUri(w)
    \/ UriDone(w)
    \/ PlayCall(w)
    \/ PlayDone(w)
    \/ HandlePause(w)
    \/ HandleStop(w)
    \/ HandleNext(w)
    \/ HandlePrevious(w)
    \/ HandleSetTrack(w)

\* The pipeline next to the console's display loop, taken line by line.
NextConsole ==
    \/ \E w \in Workers : PipelineWorker(w)
    \/ \E c \in Commands : Enqueue(c)
    \/ ConsoleSnapshot
    \/ ConsoleClear
    \/ DebounceElapse

SpecConsole == Init /\ [][NextConsole]_vars

SpecPipelineLive ==
    Init /\ [][NextPipeline]_vars /\ \A w \in Workers : WF_vars(PipelineWorker(w))

\* The queue alone: puts of any command, gets, and the debounce window
\* running out.  burst is the puts since the queue was empty that were all of
\* one kind and inside the window of the put before, with no get between.
BurstAfterPut(command) ==
    IF queue = <<>> THEN <<command>>
    ELSE IF burst # <<>> /\ command.type = burst[1].type /\ last_command_time # "stale"
    THEN Append(burst, command)
    ELSE <<>>

QueuePut ==
    /\ Len(queue) <= MaxQueue
    /\ Len(burst) < MaxBurst
    /\ \E c \in Commands :
        /\ Put(c)
        /\ burst' = BurstAfterPut(c)
    /\ UNCHANGED <<state, wvars, pvars, svars, lvars, hvars, gvars, uvars>>

QueueTake ==
    /\ queue # <<>>
    /\ queue' = QueueGet(queue)[2]
    /\ burst' = <<>>
    /\ UNCHANGED <<state, last_command_time, wvars, pvars, svars, lvars, hvars, gvars, uvars>>

NextQueue == QueuePut \/ QueueTake \/ DebounceElapse

SpecQueue == Init /\ [][NextQueue]_vars

\* The poller alone, in sequential play of a track that plays, with samples
\* on both sides of each threshold of the heuristic (position 2.0s, jump from
\* above 5.0s to below 3.0s, 2.0s before the end of 8.0s) and with the
\* duration unknown (0); a consumer takes what the poller enqueues.
EdgePositions == {0, 20, 21, 29, 30, 50, 51, 59, 60, 61}
EdgeSamples == {<<p, d>> : p \in EdgePositions, d \in {0, 80}}

InitPoller ==
    /\ \E i \in Tracks :
        state = [SharedStateInit EXCEPT !.is_playing = TRUE,
                                        !.transport_state = "PLAYING",
                                        !.play_all_enabled = TRUE,
                                        !.current_track_idx = i]
    /\ queue = <<>>
    /\ last_command_time = "stale"
    /\ running = [w \in Workers |-> TRUE]
    /\ worker_pc = [w \in Workers |-> "idle"]
    /\ cmd = [w \in Workers |-> NoCmd]
    /\ attempt = [w \in Workers |-> 0]
    /\ ok = [w \in Workers |-> FALSE]
    /\ open_calls = 0
    /\ poll_pc = "check"
    /\ track_started = FALSE
    /\ track_start_time = "zero"
    /\ burst = <<>>
    /\ NoCall
    /\ ui = "menu"
    /\ quit_stop = "none"
    /\ lock = "free"
    /\ pending = <<>>
    /\ writing = <<>>
    /\ snapshot = state
    /\ committed = state
    /\ request = NoRequest
    /\ info = NoInfo
    /\ response = NoResponse
    /\ stale_sample = FALSE

NextPoller ==
    \/ PollCheck
    \/ PollQueryOf(EdgeSamples)
    \/ PollReadPlayAll
    \/ PollReadStarted
    \/ PollReadStartTime
    \/ PollReadLastPos
    \/ PollMarkStarted
    \/ PollTrackEnded
    \/ PollClearStarted
    \/ PollPutNext
    \/ PollClearPlayAll
    \/ PollSetLast
    \/ QueueTake
    \/ DebounceElapse
    \/ GraceElapse

SpecPoller == InitPoller /\ [][NextPoller]_vars

\* The worker and the console up to the end of the program, without
\* sequential play.
NextQuit ==
    \/ \E w \in Workers :
        \/ WorkerGet(w)
        \/ PlayStart(w)
        \/ PlayStop(w)
        \/ VariantsStop(w)
        \/ SetUri(w)
        \/ UriDone(w)
        \/ PlayCall(w)
        \/ PlayDone(w)
        \/ HandleStop(w)
        \/ HandleNext(w)
        \/ HandlePrevious(w)
        \/ HandleSetTrack(w)
    \/ \E i \in Tracks :
        \/ ChoicePlay(i)
        \/ ChoiceNext(i)
        \/ ChoicePrevious(i)
        \/ ChoiceNumber(i)
    \/ ChoiceStop
    \/ ChoiceQuit
    \/ QuitPut
    \/ Shutdown
    \/ ProcessExit
    \/ ClearError
    \/ DebounceElapse

SpecQuit == Init /\ [][NextQuit]_vars

\* ------------------------------------------------------ SharedState lock
\* SharedState at the level of single field writes: update writes the keys
\* of its dictionary one after the other while it holds the lock, get_all
\* copies the dictionary while it holds the lock.
UnchangedEngine ==
    UNCHANGED <<qvars, wvars, pvars, burst, svars, uvars, hvars, gvars>>

\* update, lines 181-183: the lock is taken.
UpdateBegin(fields, keys) ==
    /\ lock = "free"
    /\ lock' = "update"
    /\ writing' = fields
    /\ pending' = keys
    /\ UNCHANGED <<state, snapshot, committed>>
    /\ UnchangedEngine

\* update: self.state.update(updates_dict) writes one key.
UpdateWrite ==
    /\ lock = "update"
    /\ pending # <<>>
    /\ state' = [state EXCEPT ![Head(pending)] = writing[Head(pending)]]
    /\ pending' = Tail(pending)
    /\ UNCHANGED <<lock, writing, snapshot, committed>>
    /\ UnchangedEngine

\* update: the lock is released.
UpdateEnd ==
    /\ lock = "update"
    /\ pending = <<>>
    /\ lock' = "free"
    /\ writing' = <<>>
    /\ committed' = state
    /\ UNCHANGED <<state, pending, snapshot>>
    /\ UnchangedEngine

\* A faulty variant: get_all copies without the lock.
GetAllUnlocked == TRUE

\* get_all, line 186: with self._lock.
GetAllLocked == lock = "free"

\* get_all, lines 185-187: the copy is made and returned.
GetAll ==
    /\ GetAllLocked
    /\ snapshot' = state
    /\ UNCHANGED <<state, lock, pending, writing, committed>>
    /\ UnchangedEngine

\* The updates of several fields the program makes: _handle_pause and
\* _handle_stop, _handle_play (lines 681-689), the poller's sample (lines
\* 544-548) and its mark of the start (lines 556-559).
NextState ==
    \/ UpdateBegin([is_playing |-> FALSE, transport_state |-> "PAUSED"],
                   <<"is_playing", "transport_state">>)
    \/ UpdateBegin([is_playing |-> FALSE, transport_state |-> "STOPPED"],
                   <<"is_playing", "transport_state">>)
    \/ \E i \in Tracks :
        UpdateBegin([current_track_idx |-> i, is_playing |-> TRUE,
                     transport_state |-> "TRANSITIONING", track_started |-> FALSE,
                     track_start_time |-> "zero", last_position |-> 0],
                    <<"current_track_idx", "is_playing", "transport_state",
                      "track_started", "track_start_time", "last_position">>)
    \/ \E sample \in Samples :
        UpdateBegin([position |-> sample[1], duration |-> sample[2]],
                    <<"position", "duration">>)
    \/ UpdateBegin([track_started |-> TRUE, track_start_time |-> "fresh"],
                   <<"track_started", "track_start_time">>)
    \/ UpdateWrite
    \/ UpdateEnd
    \/ GetAll

SpecState == Init /\ [][NextState]_vars

\* --------------------------------------------------------- Media Server
\* A path is a sequence of names and a name is a stem with an extension, so
\* that replacing the last four characters ".wav" of a path is replacing the
\* extension of its last name.
Name(stem, ext) == [stem |-> stem, ext |-> ext]

\* The directory handed to the server, as an absolute path.
base_dir == <<Name("srv", ""), Name("music", "")>>

\* The files on the disk of the machine: five inside the served directory,
\* two outside it.
Secret == <<Name("srv", ""), Name("secret", "txt")>>
Passwd == <<Name("etc", ""), Name("passwd", "")>>
Disk ==
    { base_dir \o <<Name("a", "wav")>>,
      base_dir \o <<Name("b", "aiff")>>,
      base_dir \o <<Name("c", "aif")>>,
      base_dir \o <<Name("d", "aiff")>>,
      base_dir \o <<Name("d", "aif")>>,
      Secret, Passwd }

\* The directories of the disk a request can name.
Dirs == {base_dir}

\* The number of bytes of a file on the disk.
st_size(p) == IF p[Len(p)].ext = "wav" THEN 4044 ELSE 7

\* What soundfile reports of an AIFF file: frames and channels.
Subtypes == {"PCM_16", "PCM_24", "PCM_32", "FLOAT"}
Infos == [frames : {0, 1, 1000}, channels : {1, 2}, subtype : Subtypes]

\* What goes wrong while a file that exists is served: nothing, open() is
\* refused, or the client closes the connection amid the body.
Faults == {"none", "unreadable", "disconnect"}

\* The request paths: self.path without its leading slash, either relative
\* (the empty one is "GET /") or, decoded, beginning with a further slash
\* (sent as %2F).
Requests ==
    [absolute : {FALSE}, fault : Faults,
     segs : { <<Name(s, e)>> : s \in {"a", "b", "c", "d", "e"}, e \in {"wav"} }
            \cup { <<>>, <<Name("b", "WAV")>>, <<Name("b", "aiff")>>, <<Name("e", "mp3")>>,
                   <<Name("..", ""), Name("secret", "txt")>>,
                   <<Name("%2e%2e", ""), Name("secret", "txt")>>,
                   <<Name("..", ""), Name("secret", "wav")>>,
                   <<Name("..", ""), Name("..", ""), Name("etc", ""), Name("passwd", "")>> }]
    \cup [absolute : {TRUE}, fault : Faults, segs : { Passwd, <<Name("etc", ""), Name("shadow", "")>> }]

\* urllib.parse.unquote on one name and on a path.
unquote_name(n) == IF n.stem = "%2e%2e" THEN Name("..", n.ext) ELSE n
unquote(segs) == [i \in 1..Len(segs) |-> unquote_name(segs[i])]

\* os.path.join: an absolute second argument discards the first.
join(base, path) == IF path.absolute THEN path.segs ELSE base \o path.segs

\* The file a path names once the system has followed its ".." entries.
RECURSIVE Resolve(_, _)
Resolve(done, rest) ==
    IF rest = <<>> THEN done
    ELSE IF rest[1].stem = ".." /\ rest[1].ext = ""
         THEN Resolve(IF done = <<>> THEN done ELSE SubSeq(done, 1, Len(done) - 1),
                      Tail(rest))
         ELSE Resolve(Append(done, rest[1]), Tail(rest))
exists(p) == Resolve(<<>>, p) \in Disk \cup Dirs

\* str.lower on an extension.
lower(e) == IF e = "WAV" THEN "wav" ELSE e

\* mimetypes.guess_type.
guess_type(p) ==
    CASE lower(p[Len(p)].ext) = "wav" -> "audio/x-wav"
      [] lower(p[Len(p)].ext) \in {"aiff", "aif"} -> "audio/x-aiff"
      [] lower(p[Len(p)].ext) = "mp3" -> "audio/mpeg"
      [] lower(p[Len(p)].ext) = "txt" -> "text/plain"
      [] OTHER -> "application/octet-stream"

\* The path with its last four characters replaced by an extension.
WithExt(p, e) == [p EXCEPT ![Len(p)] = Name(p[Len(p)].stem, e)]

\* The methods StaticAudioHandler defines, and the one do_GET calls for the
\* header.
Methods == {"log_message", "do_GET", "_wav_header_bytes"}
HeaderCall == "wav_header_bytes"

\* send_error: a status with no file's bytes.
send_error(code) == Response(code, "text/html", 0, <<>>, FALSE, 0, 0)

\* _wav_header_bytes: the two sizes the 44-byte header declares.
sampwidth == 2
HeaderLen == 44
RiffExtra == 36
wav_header_bytes(nch, width, nframes) ==
    LET datasize == nframes * nch * width
    IN  [riff |-> RiffExtra + datasize, data |-> datasize]

\* filesize_bytes_aiff_as_wav, for an .aif/.aiff file that soundfile can
\* read: the size written into the DIDL-Lite descriptor of the track.  The
\* output sample width is chosen from the SOURCE's subtype ('FLOAT' in
\* subtype, '24' in subtype, '32' in subtype, otherwise 16-bit).
out_sw(subtype) ==
    IF subtype = "FLOAT" THEN 4
    ELSE IF subtype = "PCM_24" THEN 3
    ELSE IF subtype = "PCM_32" THEN 4
    ELSE 2
filesize_bytes_aiff_as_wav(i) == HeaderLen + (i.frames * i.channels * out_sw(i.subtype))

\* build_didl_with_size: the size attribute of the res element, present
\* only for a positive size.
size_attr(size) == IF size > 0 THEN <<size>> ELSE <<>>

\* The handler's `except Exception` after the 200 headers went out:
\* send_error(500) writes a second status line behind them, unless the
\* connection is gone and the write raises in its turn (bare except).
ErrorAfterHeaders(resp, fault) ==
    [resp EXCEPT !.sent = <<>>,
                 !.lines = IF fault = "disconnect" THEN resp.lines
                           ELSE Append(resp.lines, 500)]

\* do_GET, the branch of a missing .wav whose sibling exists.  The header
\* is asked for before anything is sent; sf.info has already read the file.
Synthesize(cand, i, fault) ==
    LET datasize  == i.frames * i.channels * sampwidth
        totalsize == HeaderLen + datasize
        header    == wav_header_bytes(i.channels, sampwidth, i.frames)
        streamed  == Response(200, "audio/wav", totalsize, Resolve(<<>>, cand), TRUE,
                              header.riff, header.data)
    IN  IF fault = "unreadable" \/ HeaderCall \notin Methods
        THEN send_error(500)
        ELSE IF fault = "disconnect"
             THEN [streamed EXCEPT !.sent = <<>>]
             ELSE streamed

\* do_GET, the branch of a path that does not exist.
Fallback(fullpath, i, fault) ==
    IF fullpath # <<>> /\ lower(fullpath[Len(fullpath)].ext) = "wav"
    THEN IF exists(WithExt(fullpath, "aiff"))
         THEN Synthesize(WithExt(fullpath, "aiff"), i, fault)
         ELSE IF exists(WithExt(fullpath, "aif"))
              THEN Synthesize(WithExt(fullpath, "aif"), i, fault)
              ELSE send_error(404)
    ELSE send_error(404)

\* do_GET, the branch of a path that exists: the file as it is.  The 200
\* headers are sent from os.stat, and only then is the file opened, read
\* and written; a directory cannot be opened.
ServeFile(fullpath, fault) ==
    LET file    == Resolve(<<>>, fullpath)
        headers == Response(200, guess_type(fullpath), st_size(file), file, FALSE, 0, 0)
    IN  IF file \in Dirs THEN ErrorAfterHeaders(headers, "unreadable")
        ELSE IF fault # "none" THEN ErrorAfterHeaders(headers, fault)
             ELSE headers

fullpath_of(req) == join(base_dir, [absolute |-> req.absolute, segs |-> unquote(req.segs)])
Respond(req, i) ==
    IF exists(fullpath_of(req)) THEN ServeFile(fullpath_of(req), req.fault)
    ELSE Fallback(fullpath_of(req), i, req.fault)

UnchangedPlayer == UNCHANGED <<state, qvars, wvars, pvars, burst, svars, uvars, lvars, gvars>>

\* A GET arrives.
Receive ==
    /\ request = NoRequest
    /\ request' \in Requests
    /\ info' \in Infos
    /\ response' = NoResponse
    /\ UnchangedPlayer

\* do_GET answers it.
do_GET ==
    /\ request # NoRequest
    /\ response = NoResponse
    /\ response' = Respond(request, info)
    /\ UNCHANGED <<request, info>>
    /\ UnchangedPlayer

\* The handler returns and the connection's thread ends.
Finish ==
    /\ response # NoResponse
    /\ request' = NoRequest
    /\ info' = NoInfo
    /\ response' = NoResponse
    /\ UnchangedPlayer

NextServer == Receive \/ do_GET \/ Finish
SpecServer == Init /\ [][NextServer]_vars

\* ------------------------------------------------------ sequential play
\* Sequential mode left to itself: the user starts it once with 'a' and
\* enters nothing more, every request to the renderer succeeds at its first
\* attempt, and the renderer goes on reporting each track up to its end.

\* interactive_ui, choice 'a', entered while nothing plays.
SeqStart(start_idx) ==
    /\ ~state.play_all_enabled
    /\ ~state.is_playing
    /\ queue = <<>>
    /\ \A w \in Workers : worker_pc[w] = "idle"
    /\ ChoiceAll(start_idx)

\* set_avtransport_uri succeeds for the first variant.
SeqSetUri(w) == SetUri(w) /\ worker_pc'[w] = "uri_done" /\ ok'[w]

\* play_upnp succeeds.
SeqPlayCall(w) == PlayCall(w) /\ ok'[w]

\* get_position_info returns a sample.
SeqPollQuery == PollQuery /\ poll_pc' = "read_play_all"

\* get_position_info returns a sample within 2.0s of the track's end.
SeqPollNearEnd ==
    PollQueryOf({sample \in Samples : sample[2] > 0 /\ sample[1] >= sample[2] - NearEnd})
        /\ poll_pc' = "read_play_all"

SeqWorker(w) ==
    \/ WorkerGet(w)
    \/ HandleSetTrack(w)
    \/ HandleNext(w)
    \/ PlayStart(w)
    \/ PlayStop(w)
    \/ VariantsStop(w)
    \/ SeqSetUri(w)
    \/ UriDone(w)
    \/ SeqPlayCall(w)
    \/ PlayDone(w)

SeqPoller ==
    \/ PollCheck
    \/ PollReadPlayAll
    \/ PollReadStarted
    \/ PollReadStartTime
    \/ PollReadLastPos
    \/ PollMarkStarted
    \/ PollTrackEnded
    \/ PollClearStarted
    \/ PollPutNext
    \/ PollClearPlayAll
    \/ PollSetLast

NextSequential ==
    \/ \E i \in Tracks : SeqStart(i)
    \/ \E w \in Workers : SeqWorker(w)
    \/ SeqPoller
    \/ SeqPollQuery
    \/ DebounceElapse
    \/ GraceElapse

\* The threads keep running and time passes; the renderer reports the end
\* of a track again and again for as long as it is asked.
FairSequential ==
    /\ \A w \in Workers : WF_vars(SeqWorker(w))
    /\ WF_vars(SeqPoller)
    /\ WF_vars(GraceElapse)
    /\ SF_vars(SeqPollNearEnd)

SpecSequential == Init /\ [][NextSequential]_vars /\ FairSequential

\* ------------------------------------------------------ Protocol Client
\* The functions of the Protocol Client at the level of single requests, one
\* call at a time as each caller makes them.  A request either raises inside
\* send_soap_request (transport failure, timeout, HTTP error, undecodable
\* bytes) or returns one of the Bodies: a GetPositionInfo response, text that
\* is not XML, or nothing.
ClientFunctions ==
    {"stop_upnp", "pause_upnp", "play_upnp", "get_position_info",
     "set_avtransport_uri_variants"}
VariantFormats == {"wav", "flac"}
Bodies == {"position_xml", "not_xml", ""}
DefaultRetries == 3

\* A faulty variant: SetAVTransportURI is requested without retry.
RetriesOfNoRetry(a) ==
    CASE a \in {"Stop", "Pause", "SetAVTransportURI"} -> 1
      [] OTHER -> DefaultRetries

\* The retries argument each function passes to send_soap_request.
RetriesOf(a) ==
    CASE a \in {"Stop", "Pause"} -> 1
      [] a = "SetAVTransportURI" -> 3
      [] OTHER -> DefaultRetries

\* The action requested first by each function.
ActionOf(c) ==
    CASE c = "stop_upnp" -> "Stop"
      [] c = "pause_upnp" -> "Pause"
      [] c = "play_upnp" -> "Play"
      [] c = "get_position_info" -> "GetPositionInfo"
      [] OTHER -> "Stop"

\* send_soap_request is entered.
SendSoap(a) ==
    /\ action' = a
    /\ retries' = RetriesOf(a)
    /\ outcomes' = <<>>
    /\ waits' = <<>>
    /\ soap_result' = <<"pending", "None">>

\* A faulty variant: the backoff is slept after the last failure as well.
WaitsAfterFailureAlways(ws, attempt_idx, r) ==
    Append(ws, attempt_idx + 1)

\* send_soap_request, lines 371-372: the sleep after a failed attempt.
WaitsAfterFailure(ws, attempt_idx, r) ==
    IF attempt_idx < r - 1 THEN Append(ws, attempt_idx + 1) ELSE ws

\* A function of the Protocol Client is called.
ClientCall(c) ==
    /\ client = "None"
    /\ client' = c
    /\ \E f \in VariantFormats :
        format_type' = IF c = "set_avtransport_uri_variants" THEN f ELSE "None"
    /\ variant' = 0
    /\ requests' = <<>>
    /\ result' = "pending"
    /\ SendSoap(ActionOf(c))
    /\ UNCHANGED evars

\* send_soap_request, lines 363-374: one pass of the loop, and the return
\* after the last one.
SoapAttempt ==
    /\ soap_result[1] = "pending"
    /\ Len(outcomes) < retries
    /\ requests' = Append(requests, action)
    /\ \/ \E body \in Bodies :
            /\ outcomes' = Append(outcomes, "ok")
            /\ soap_result' = <<"True", body>>
            /\ UNCHANGED waits
       \/ /\ outcomes' = Append(outcomes, "error")
          /\ waits' = WaitsAfterFailure(waits, Len(outcomes), retries)
          /\ soap_result' = IF Len(outcomes) + 1 < retries
                            THEN soap_result
                            ELSE <<"False", "None">>
    /\ UNCHANGED <<evars, client, format_type, variant, action, retries, result>>

Returned == soap_result[1] \in {"True", "False"}

\* stop_upnp, pause_upnp, play_upnp: return ok.
FlagReturn ==
    /\ client \in {"stop_upnp", "pause_upnp", "play_upnp"}
    /\ Returned
    /\ result = "pending"
    /\ result' = soap_result[1]
    /\ UNCHANGED <<evars, client, format_type, variant, requests, action, retries,
                   outcomes, waits, soap_result>>

\* get_position_info, lines 409-441: what the function returns for the pair
\* of send_soap_request; "None" is the function ending without a return.
PositionResult(pair) ==
    IF pair[1] = "True" /\ pair[2] # ""
    THEN IF pair[2] = "position_xml" THEN "(True, info)" ELSE "(False, None)"
    ELSE "None"

GetPositionInfoReturn ==
    /\ client = "get_position_info"
    /\ Returned
    /\ result = "pending"
    /\ result' = PositionResult(soap_result)
    /\ UNCHANGED <<evars, client, format_type, variant, requests, action, retries,
                   outcomes, waits, soap_result>>

\* set_avtransport_uri_variants, lines 453-505: the Stop, whatever it
\* returned, then the first variant.
VariantsFirst ==
    /\ client = "set_avtransport_uri_variants"
    /\ Returned
    /\ variant = 0
    /\ variant' = 1
    /\ SendSoap("SetAVTransportURI")
    /\ UNCHANGED <<evars, client, format_type, requests, result>>

\* A faulty variant: the first variant that fails ends the call.
VariantsLoopGivesUp ==
    /\ client = "set_avtransport_uri_variants"
    /\ Returned
    /\ variant > 0
    /\ result = "pending"
    /\ result' = soap_result[1]
    /\ UNCHANGED <<evars, client, format_type, variant, requests, action, retries,
                   outcomes, waits, soap_result>>

\* set_avtransport_uri_variants, lines 501-513: after a variant.
VariantsLoop ==
    /\ client = "set_avtransport_uri_variants"
    /\ Returned
    /\ variant > 0
    /\ result = "pending"
    /\ IF soap_result[1] = "True"
       THEN /\ result' = "True"
            /\ UNCHANGED <<variant, action, retries, outcomes, waits, soap_result>>
       ELSE IF variant < NumVariants(format_type)
       THEN /\ variant' = variant + 1
            /\ SendSoap("SetAVTransportURI")
            /\ UNCHANGED result
       ELSE /\ result' = "False"
            /\ UNCHANGED <<variant, action, retries, outcomes, waits, soap_result>>
    /\ UNCHANGED <<evars, client, format_type, requests>>

\* The caller has the result; the next call starts from scratch.
CallerResumes ==
    /\ result \notin {"None yet", "pending"}
    /\ client' = "None"
    /\ format_type' = "None"
    /\ variant' = 0
    /\ requests' = <<>>
    /\ action' = "None"
    /\ retries' = 0
    /\ outcomes' = <<>>
    /\ waits' = <<>>
    /\ soap_result' = <<"None", "None">>
    /\ result' = "None yet"
    /\ UNCHANGED evars

NextSoap ==
    \/ \E c \in ClientFunctions : ClientCall(c)
    \/ SoapAttempt
    \/ FlagReturn
    \/ GetPositionInfoReturn
    \/ VariantsFirst
    \/ VariantsLoop
    \/ CallerResumes

SpecSoap == Init /\ [][NextSoap]_vars

\* ================================================================ properties
\* The worker's positions in which a request of a handler is out.
CallPcs == {"pause", "stop", "play_stop", "variants_stop", "set_uri", "play_call"}

\* The worker's positions inside set_avtransport_uri_variants.
SourceSetPcs == {"variants_stop", "set_uri"}

\* The track a Play in hand is about.
PlayIdx(w) == ArgsGet(cmd[w].args, state.current_track_idx)

\* The poller's requests that are out: the GetPositionInfo of line 538.
PollerCalls == IF poll_pc = "query" THEN 1 ELSE 0

\* C1: at most one command handler is executing at any instant: the requests
\* of the handlers (Stop, Pause, Play, SetAVTransportURI) never overlap, and
\* two source-set sequences are never in progress together.
C1_OneHandlerAtATime ==
    /\ open_calls <= 1
    /\ Cardinality({w \in Workers : worker_pc[w] # "idle"}) <= 1
    /\ Cardinality({w \in Workers : worker_pc[w] \in SourceSetPcs}) <= 1
    /\ open_calls = Cardinality({w \in Workers : worker_pc[w] \in CallPcs})

\* C1 happens: a source-set request of the worker is out while the poller's
\* position query is out and another command waits in the queue.
C1_Witness ==
    /\ \E w \in Workers : worker_pc[w] = "set_uri"
    /\ open_calls = 1
    /\ poll_pc = "query"
    /\ queue # <<>>

\* C2: commands leave the queue in the order they were accepted, each to one
\* handler execution: a step leaves the queue alone, appends one command at
\* its tail, or hands its head to an idle worker; a worker's command in hand
\* changes only by taking the head of the queue or by finishing.
C2_FifoAtMostOnce ==
    [][ /\ \/ queue' = queue
           \/ /\ Len(queue') = Len(queue) + 1
              /\ SubSeq(queue', 1, Len(queue)) = queue
           \/ /\ queue # <<>>
              /\ queue' = Tail(queue)
              /\ \E w \in Workers :
                    /\ worker_pc[w] = "idle"
                    /\ cmd[w] = NoCmd
                    /\ \/ cmd'[w] = Head(queue)
                       \/ Head(queue).type = "QUIT" /\ ~running'[w]
                    /\ \A v \in Workers \ {w} : cmd'[v] = cmd[v]
        /\ \A w \in Workers :
              cmd'[w] # cmd[w] =>
                  \/ cmd'[w] = NoCmd
                  \/ /\ cmd[w] = NoCmd
                     /\ queue # <<>>
                     /\ cmd'[w] = Head(queue)
                     /\ queue' = Tail(queue)
      ]_vars

\* C2 happens: two commands of different kinds wait for the idle worker.
C2_Witness ==
    /\ Len(queue) = 2
    /\ queue[1].type # queue[2].type
    /\ \A w \in Workers : running[w] /\ worker_pc[w] = "idle"

\* C3: N puts of one kind, each inside the debounce window of the one before,
\* onto an empty queue with no get between, leave exactly the first of them
\* in the queue.
C3_BurstKeepsFirst == burst # <<>> => queue = <<burst[1]>>

\* C3 happens: a burst of MaxBurst puts of one kind with different payloads.
C3_Witness ==
    /\ Len(burst) = MaxBurst
    /\ burst[2] # burst[1]
    /\ burst[MaxBurst] # burst[1]
    /\ queue = <<burst[1]>>

\* C4: a Play whose every source-set variant failed, or whose play call
\* failed, ends with is_playing false and the error recorded; a Play whose
\* source-set and play call succeeded ends with is_playing true and the
\* transport state PLAYING.
C4_PlayOutcome ==
    [][ \A w \in Workers :
          /\ (worker_pc[w] = "uri_done" /\ worker_pc'[w] # "uri_done" /\ ~ok[w]) =>
                /\ attempt[w] = NumVariants(get_format_from_extension(files[PlayIdx(w)]))
                /\ worker_pc'[w] = "idle"
                /\ ~state'.is_playing
                /\ state'.error = "SetAVTransportURI failed"
          /\ (worker_pc[w] = "play_done" /\ worker_pc'[w] # "play_done") =>
                /\ worker_pc'[w] = "idle"
                /\ IF ok[w]
                   THEN state'.is_playing /\ state'.transport_state = "PLAYING"
                   ELSE ~state'.is_playing /\ state'.error = "Play failed"
      ]_vars

\* C4 happens: a Play has just ended on a failed play call.
C4_Witness ==
    /\ state.error = "Play failed"
    /\ ~state.is_playing
    /\ state.transport_state = "TRANSITIONING"
    /\ \A w \in Workers : worker_pc[w] = "idle"

\* C5: a Play whose index is below 0 or not below the track count ends
\* without any change to the shared state, the error slot included, without
\* a request being sent and without a command being enqueued.
C5_RejectOutOfRange ==
    [][ \A w \in Workers :
          ( /\ worker_pc[w] = "play"
            /\ worker_pc'[w] # "play"
            /\ (PlayIdx(w) < 0 \/ PlayIdx(w) >= NumTracks) ) =>
                /\ state' = state
                /\ queue' = queue
                /\ open_calls' = open_calls
                /\ worker_pc'[w] = "idle"
      ]_vars

\* C5 happens: the worker holds a Play of the index one past the last track.
C5_Witness ==
    \E w \in Workers :
        /\ worker_pc[w] = "play"
        /\ cmd[w] = PlayCommand(NumTracks)

\* C6: SetTrack(i) is an alias of Play(i): when the worker finishes a
\* SetTrack(i), either it is executing Play(i) or Play(i) is the next command
\* it will take, ahead of every command accepted after the SetTrack.
C6_SetTrackIsPlay ==
    [][ \A w \in Workers :
          (worker_pc[w] = "set_track" /\ worker_pc'[w] # "set_track") =>
              \/ /\ worker_pc'[w] \in {"play", "play_stop"}
                 /\ cmd'[w] = PlayCommand(PlayIdx(w))
              \/ /\ queue' # <<>>
                 /\ Head(queue') = PlayCommand(PlayIdx(w))
      ]_vars

\* C7: Next with a following track enqueues Play(current + 1), Previous with
\* a preceding track enqueues Play(current - 1); at the last (first) track
\* they enqueue nothing, send nothing and change nothing.
C7_NextPreviousEnqueuePlay ==
    [][ \A w \in Workers :
          /\ (worker_pc[w] = "next" /\ worker_pc'[w] # "next") =>
                IF state.current_track_idx < NumTracks - 1
                THEN queue' = Append(queue, PlayCommand(state.current_track_idx + 1))
                ELSE queue' = queue /\ state' = state /\ open_calls' = open_calls
          /\ (worker_pc[w] = "previous" /\ worker_pc'[w] # "previous") =>
                IF state.current_track_idx > 0
                THEN queue' = Append(queue, PlayCommand(state.current_track_idx - 1))
                ELSE queue' = queue /\ state' = state /\ open_calls' = open_calls
      ]_vars

\* C8: a declared track end with current_track_idx below the last index
\* resets track_started to false and enqueues exactly one NEXT.
C8_TrackEndEnqueuesNext ==
    [][ /\ (poll_pc = "track_ended" /\ poll_pc' # "track_ended"
                /\ state.current_track_idx < NumTracks - 1) =>
              poll_pc' = "clear_started"
        /\ (poll_pc = "clear_started" /\ poll_pc' # "clear_started") =>
              /\ ~state'.track_started
              /\ poll_pc' = "put_next"
              /\ queue' = queue
        /\ (poll_pc = "put_next" /\ poll_pc' # "put_next") =>
              /\ queue' = Append(queue, Command("NEXT", {}))
              /\ ~state'.track_started
              /\ poll_pc' = "set_last"
      ]_vars

\* C9: a track end declared at the last index clears play_all_enabled and
\* enqueues nothing; a later poll cycle that finds the mode cleared declares
\* no track end and enqueues nothing.
C9_LastTrackEndsSequence ==
    [][ /\ (poll_pc = "track_ended" /\ poll_pc' # "track_ended"
                /\ state.current_track_idx = NumTracks - 1) =>
              poll_pc' = "clear_play_all"
        /\ (poll_pc = "clear_play_all" /\ poll_pc' # "clear_play_all") =>
              /\ ~state'.play_all_enabled
              /\ queue' = queue
              /\ poll_pc' = "set_last"
        /\ (poll_pc = "read_play_all" /\ poll_pc' # "read_play_all"
                /\ ~state.play_all_enabled) =>
              /\ poll_pc' = "set_last"
              /\ queue' = queue
              /\ state' = state
        /\ (poll_pc' # poll_pc /\ poll_pc # "put_next") =>
              queue' = queue
      ]_vars

\* C9 happens: the poller has declared the end of the last track.
C9_Witness ==
    /\ poll_pc = "clear_play_all"
    /\ state.current_track_idx = NumTracks - 1
    /\ state.play_all_enabled

C11_NoEndInsideGrace ==
    [][ /\ (poll_pc = "read_last_pos" /\ poll_pc' = "track_ended") =>
              /\ track_started
              /\ track_start_time = "stale"
        /\ (poll_pc = "mark_started" /\ poll_pc' # "mark_started") =>
              poll_pc' = "set_last"
      ]_vars

\* C11 happens in the order the claim describes: the poller judges a track
\* that was marked as started by a stamp still inside the 3.0s, and a jump or
\* near-end condition holds.
C11_Witness ==
    /\ poll_pc = "read_last_pos"
    /\ track_started
    /\ track_start_time = "fresh"
    /\ TrackEnded(state.last_position, pos, dur)

\* C12: past the 3.0s after the mark, a poll cycle declares a track end
\* exactly when (previous position > 5.0s, position < 3.0s and duration > 0)
\* or (duration > 0 and position >= duration - 2.0s).
C12_EndConditions ==
    [][ ( /\ poll_pc = "read_last_pos"
          /\ poll_pc' # "read_last_pos"
          /\ track_started
          /\ track_start_time = "stale" ) =>
            ( (poll_pc' = "track_ended") <=>
                \/ /\ state.last_position > 50
                   /\ state.position < 30
                   /\ state.duration > 0
                \/ /\ state.duration > 0
                   /\ state.position >= state.duration - 20 )
      ]_vars

\* C12 happens: a track end declared on a backward jump alone.
C12_Witness ==
    /\ poll_pc = "track_ended"
    /\ state.last_position = 51
    /\ state.position = 29
    /\ state.duration = 80

\* C13: the descriptor variants are attempted in list order, one at a time,
\* each only after the one before it failed; the call succeeds at the first
\* variant that succeeds and requests nothing after it; it fails only after
\* the last variant of the list failed.
C13_VariantsInOrder ==
    [][ client = "set_avtransport_uri_variants" =>
          /\ (client' = client /\ variant' # variant) =>
                /\ variant' = variant + 1
                /\ variant > 0 => soap_result[1] = "False"
          /\ (result = "pending" /\ result' = "True") =>
                /\ variant > 0
                /\ soap_result[1] = "True"
          /\ (result = "pending" /\ result' = "False") =>
                /\ variant = NumVariants(format_type)
                /\ soap_result[1] = "False"
          /\ result \in {"True", "False"} =>
                /\ client' = "None"
                /\ requests' = <<>>
      ]_vars

\* C13 happens: every variant of a wav file was attempted and failed.
C13_Witness ==
    /\ client = "set_avtransport_uri_variants"
    /\ format_type = "wav"
    /\ variant = 4
    /\ result = "False"

Failures == Cardinality({i \in 1..Len(outcomes) : outcomes[i] = "error"})

\* C14: a request with retry budget R makes at most R attempts, returns
\* (success, body) at the first attempt that succeeds, sleeps k times the
\* backoff after the k-th failed attempt only when k < R, and returns
\* (failure, nothing) after R failed attempts.
C14_RetryBudget ==
    /\ Len(outcomes) <= retries
    /\ \A i \in 1..(Len(outcomes) - 1) : outcomes[i] = "error"
    /\ soap_result[1] = "True" <=>
          (outcomes # <<>> /\ outcomes[Len(outcomes)] = "ok")
    /\ soap_result[1] = "False" <=> (retries > 0 /\ Failures = retries)
    /\ soap_result[1] = "False" => soap_result[2] = "None"
    /\ soap_result[1] = "pending" => Failures = Len(outcomes)
    /\ waits = [k \in 1..(IF Failures < retries THEN Failures ELSE retries - 1) |-> k]

\* C14 happens: a request with budget 3 failed three times.
C14_Witness ==
    /\ retries = 3
    /\ soap_result = <<"False", "None">>
    /\ outcomes = <<"error", "error", "error">>
    /\ waits = <<1, 2>>

\* C15: every function of the Protocol Client returns a success flag, alone
\* or paired with its data, in every outcome.
C15_AlwaysFlag ==
    result \in {"None yet", "pending", "True", "False", "(True, info)", "(False, None)"}

\* C16: Stop, Pause and Play are requested with the same budget of a single
\* attempt.
C16_SingleAttempt ==
    client \in {"stop_upnp", "pause_upnp", "play_upnp"} =>
        /\ retries = 1
        /\ Len(requests) <= 1

SetUriRequests ==
    Cardinality({i \in 1..Len(requests) : requests[i] = "SetAVTransportURI"})

\* C17: every variant is requested with the budget of 3 attempts, and a
\* call in which all N variants fail has sent exactly 3 * N SetAVTransportURI
\* requests.
C17_ThreePerVariant ==
    /\ action = "SetAVTransportURI" => retries = 3
    /\ (client = "set_avtransport_uri_variants" /\ result = "False") =>
          SetUriRequests = 3 * NumVariants(format_type)

\* C17 happens: the four variants of a wav file failed after 12 requests.
C17_Witness ==
    /\ client = "set_avtransport_uri_variants"
    /\ format_type = "wav"
    /\ result = "False"
    /\ SetUriRequests = 12
    /\ Len(requests) = 13

\* C20: when the user quits while is_playing is true, a Stop request goes to
\* the renderer before the worker terminates.
C20_StopOnQuit ==
    quit_stop = "owed" =>
        \E w \in Workers : running[w] \/ worker_pc[w] # "idle"

\* C18: a Pause or Stop handler either, on success, sets is_playing to false
\* and the transport state to PAUSED or STOPPED in one update, or, on
\* failure, leaves every field of the shared state, the error slot included,
\* as it was.
C18_PauseStopOutcome ==
    [][ \A w \in Workers :
          /\ (worker_pc[w] = "pause" /\ worker_pc'[w] # "pause") =>
                \/ state' = [state EXCEPT !.is_playing = FALSE,
                                          !.transport_state = "PAUSED"]
                \/ state' = state
          /\ (worker_pc[w] = "stop" /\ worker_pc'[w] # "stop") =>
                \/ state' = [state EXCEPT !.is_playing = FALSE,
                                          !.transport_state = "STOPPED"]
                \/ state' = state
      ]_vars

\* C18 happens: a Pause succeeded after a Play had failed, whose error is
\* still in its slot.
C18_Witness ==
    /\ state.transport_state = "PAUSED"
    /\ ~state.is_playing
    /\ state.error = "Play failed"

Terminated(w) == ~running[w] /\ worker_pc[w] = "idle"

\* C19: the worker takes QUIT from the queue only between handlers, taking it
\* changes nothing but the running flag, and a worker whose loop has ended
\* takes no command and runs no handler, so commands queued behind QUIT stay
\* in the queue.
C19_QuitEndsLoop ==
    [][ \A w \in Workers :
          /\ (running[w] /\ ~running'[w]) =>
                /\ worker_pc[w] = "idle"
                /\ worker_pc'[w] = "idle"
                /\ Head(queue).type = "QUIT"
                /\ queue' = Tail(queue)
                /\ UNCHANGED <<state, open_calls, cmd>>
          /\ Terminated(w) =>
                /\ Terminated(w)'
                /\ cmd'[w] = cmd[w]
          /\ (\A v \in Workers : Terminated(v)) =>
                /\ Len(queue') >= Len(queue)
                /\ UNCHANGED open_calls
      ]_vars

\* C19 happens: the loop has ended and a command is left in the queue.
C19_Witness ==
    /\ \A w \in Workers : Terminated(w)
    /\ queue # <<>>
    /\ queue[1].type # "QUIT"


\* C21 as stated: the poller never has a request out, so that with the
\* worker's at most one request is in flight.
C21_WorkerIsOnlyCaller ==
    /\ PollerCalls = 0
    /\ open_calls + PollerCalls <= 1

\* C21, amended: the requests that change the transport (Stop, Pause, Play,
\* SetAVTransportURI) are sent by the worker alone, while it handles a
\* command, at most one at a time: the number out changes only in a step of
\* a worker, never in a step of the poller or the console, and is the number
\* of workers inside a request of a handler.
C21_OnlyWorkerControls ==
    [][ /\ open_calls' # open_calls =>
              /\ \E w \in Workers : worker_pc'[w] # worker_pc[w]
              /\ poll_pc' = poll_pc
              /\ ui' = ui
        /\ open_calls' = Cardinality({w \in Workers : worker_pc'[w] \in CallPcs})
        /\ open_calls' <= 1
      ]_vars

\* C21 happens: the worker's Play request and the poller's position query
\* are out together.
C21_Witness ==
    /\ \E w \in Workers : worker_pc[w] = "play_call"
    /\ open_calls = 1
    /\ PollerCalls = 1


\* C22: in every reachable state current_track_idx is an index of the
\* playlist: 0 <= current_track_idx < number of tracks.
C22_IndexInRange ==
    /\ state.current_track_idx >= 0
    /\ state.current_track_idx < NumTracks

\* C22 happens: the index is at the last track, set by a Play, and a Play
\* with an index outside the playlist is in the worker's hand.
C22_Witness ==
    /\ state.current_track_idx = NumTracks - 1
    /\ \E w \in Workers :
          /\ worker_pc[w] = "play"
          /\ InvalidIndex(PlayIdx(w))


\* C23: get_all returns the state as completed updates left it, with all or
\* none of the fields of any one update, and a snapshot returned is not
\* altered by the state changes after it.
C23_SnapshotAtomic ==
    [][ /\ snapshot' # snapshot => snapshot' = committed
        /\ state' # state => snapshot' = snapshot
      ]_vars

\* C23 happens: an update has written some of its fields, and the snapshot
\* returned before it is that of an earlier update, whole.
C23_Witness ==
    /\ lock = "update"
    /\ pending # <<>>
    /\ state # committed
    /\ snapshot # state
    /\ snapshot # committed
    /\ snapshot.is_playing
    /\ snapshot.transport_state = "TRANSITIONING"


\* C24: a poller cycle that begins while is_playing is false or the paused
\* flag is set sends no request, writes no field of the playback state and
\* enqueues nothing: the poller stays at its check, and its step leaves the
\* state, the queue and the requests that are out as they were.
C24_IdlePoller ==
    [][ (poll_pc = "check" /\ (~state.is_playing \/ paused)) =>
          /\ poll_pc' = "check"
          /\ PollerCalls' = 0
          /\ PollCheck => UNCHANGED <<state, queue, open_calls,
                                      track_started, track_start_time>>
      ]_vars

\* C24 happens: the poller is at its check after a track it polled was
\* stopped, with a command waiting in the queue.
C24_Witness ==
    /\ poll_pc = "check"
    /\ ~state.is_playing
    /\ state.transport_state = "STOPPED"
    /\ state.duration > 0
    /\ queue # <<>>

\* The kind of the command enqueued most recently, where the state tells it:
\* the tail of the queue, or, the queue being empty, the command a worker
\* has in hand (nothing enqueued after it can have left the queue).
RecentKind ==
    IF queue # <<>> THEN queue[Len(queue)].type
    ELSE IF \E w \in Workers : cmd[w] # NoCmd
    THEN (CHOOSE c \in {cmd[w] : w \in Workers} : c # NoCmd).type
    ELSE "unknown"

\* C25: a command of the kind of the command enqueued most recently, put
\* within 100ms of it, is dropped, also when that command has been dequeued
\* by the worker: no step appends a command of that kind inside the window.
C25_DropOnRecentKind ==
    [][ (last_command_time # "stale" /\ RecentKind # "unknown") =>
          ~ /\ Len(queue') = Len(queue) + 1
            /\ queue'[Len(queue')].type = RecentKind
      ]_vars

\* C26: the debounce looks at the kind alone: a command put within 100ms
\* while a command of its kind is still at the tail of the queue leaves the
\* queue as it was, whatever its target, so that target is in no queue to be
\* played from.
C26_KindOnly ==
    [][ (queue # <<>> /\ last_command_time # "stale") =>
          \A c \in Commands :
              (c.type = queue[Len(queue)].type /\ Put(c)) => queue' = queue
      ]_vars

\* C26 happens: SetTrack(1) then SetTrack(2) within the window, and only
\* SetTrack(1) is queued.
C26_Witness ==
    /\ burst = <<Command("SET_TRACK", {1}), Command("SET_TRACK", {2})>>
    /\ queue = <<Command("SET_TRACK", {1})>>


\* C27: on shutdown the worker is stopped by its flag alone, after the
\* poller and before the Media Server listener: the step that clears the
\* flag leaves the handler in flight alone, the worker finishes the command
\* in flight (no step ends it inside a handler), and once the flags are
\* cleared no queued command is taken.
C27_CooperativeShutdown ==
    [][ /\ (ui = "shutdown" /\ ui' = "exit") =>
              /\ \A w \in Workers : ~running'[w]
              /\ UNCHANGED <<worker_pc, cmd, open_calls, queue>>
        /\ \A w \in Workers : worker_pc'[w] = "killed" => worker_pc[w] = "killed"
        /\ (ui \in {"exit", "exited"} /\ \A w \in Workers : worker_pc[w] = "idle") =>
              Len(queue') >= Len(queue)
      ]_vars

\* The request in hand names one file directly inside the served directory.
InRoot == Len(request.segs) = 1 /\ ~request.absolute
Stem == request.segs[1].stem
Sibling(e) == base_dir \o <<Name(Stem, e)>>
Answered == request # NoRequest /\ response # NoResponse

\* C28: a GET for a path ending .wav that does not exist, whose sibling .aiff
\* (looked for first) or .aif exists, is answered 200 with Content-Type
\* audio/wav and a WAV stream synthesized from that sibling; with neither
\* sibling it is answered 404.
C28_AiffFallback ==
    (Answered /\ InRoot /\ request.segs[1].ext = "wav" /\ Sibling("wav") \notin Disk) =>
        IF Sibling("aiff") \in Disk \/ Sibling("aif") \in Disk
        THEN /\ response.status = 200
             /\ response.content_type = "audio/wav"
             /\ response.synthesized
             /\ response.sent = IF Sibling("aiff") \in Disk THEN Sibling("aiff")
                                ELSE Sibling("aif")
        ELSE response.status = 404

\* A missing .wav whose .aiff and .aif siblings both exist has been answered.
C28_Witness ==
    /\ Answered /\ InRoot /\ request.segs[1].ext = "wav"
    /\ Sibling("wav") \notin Disk
    /\ Sibling("aiff") \in Disk /\ Sibling("aif") \in Disk

\* A missing .wav of the served directory with a sibling to synthesize from
\* has been answered.
FallbackAnswered ==
    /\ Answered /\ InRoot /\ request.segs[1].ext = "wav"
    /\ Sibling("wav") \notin Disk
    /\ Sibling("aiff") \in Disk \/ Sibling("aif") \in Disk

\* C29: for a source with F frames and C channels the header of the
\* synthesized WAV declares a data chunk of F*C*2 bytes and a RIFF size of
\* 36 + F*C*2, and the response's Content-Length is 44 + F*C*2.
C29_DeclaredSizes ==
    FallbackAnswered =>
        /\ response.data_size = info.frames * info.channels * 2
        /\ response.riff_size = 36 + info.frames * info.channels * 2
        /\ response.content_length = 44 + info.frames * info.channels * 2

\* The source of the answered fallback has 1000 frames in 2 channels.
C29_Witness == FallbackAnswered /\ info.frames = 1000 /\ info.channels = 2

\* The file the request in hand names, and whether it lies under the served
\* directory.
Target == Resolve(<<>>, fullpath_of(request))
Under(p) == Len(p) >= Len(base_dir) /\ SubSeq(p, 1, Len(base_dir)) = base_dir

\* C30: a GET whose decoded path resolves outside the served directory is
\* answered 404, and no byte of a file outside it is ever sent.
C30_Contained ==
    /\ (Answered /\ ~Under(Target)) => response.status = 404
    /\ response.sent # <<>> => Under(response.sent)

\* A request for an existing file outside the served directory, written with
\* a percent-encoded "..", has been answered.
C30_Witness ==
    /\ Answered /\ ~Under(Target) /\ Target \in Disk
    /\ request.segs[1].stem = "%2e%2e"

\* C31: a 500 is written only while no response headers have been sent: a
\* failure or a disconnect after the 200 headers ends the response with no
\* further status line.
C31_NoStatusAfterHeaders ==
    Answered =>
        \A k \in 1..Len(response.lines) : response.lines[k] = 500 => k = 1

\* A request whose file could not be sent after its 200 headers has been
\* answered.
C31_Witness ==
    /\ Answered /\ request.fault # "none"
    /\ response.lines # <<>> /\ response.lines[1] = 200 /\ response.sent = <<>>

\* C32: in sequential mode with every call succeeding and every track
\* reported up to its end, the tracks from the start index to the last are
\* played one after the other in index order, and sequential mode is
\* eventually switched off with the last track reached.
C32_SequentialCompletes ==
    /\ [][ state.current_track_idx' # state.current_track_idx =>
              \/ ~state.is_playing
              \/ state.current_track_idx' = state.current_track_idx + 1 ]_vars
    /\ [](state.play_all_enabled =>
            <>(~state.play_all_enabled /\ state.current_track_idx = NumTracks - 1))

\* Sequential mode has run to its end: the last track plays and the mode is
\* off.
C32_Witness ==
    /\ ~state.play_all_enabled
    /\ state.is_playing /\ state.transport_state = "PLAYING"
    /\ state.current_track_idx = NumTracks - 1
    /\ state.track_started

\* C33: once a Play execution has reset the heuristic fields, a poll cycle
\* whose sample was taken before that reset neither sets track_started nor
\* overwrites last_position.
C33_ResetHolds ==
    [][ (stale_sample /\ poll_pc' # poll_pc) =>
            /\ state.track_started' => state.track_started
            /\ state.last_position' = state.last_position ]_vars

\* A cycle that held its sample across a Play reset is about to store it.
C33_Witness ==
    /\ stale_sample
    /\ poll_pc = "set_last"
    /\ pos > 0 /\ state.last_position = 0
    /\ state.transport_state = "TRANSITIONING"

\* The step takes worker w from one place of its handler to another.
Moves(w, from, to) == worker_pc[w] = from /\ worker_pc'[w] = to
Enters(w, to) == worker_pc[w] # to /\ worker_pc'[w] = to

\* C34: within one Play execution the calls go out in the order Stop,
\* source-set attempts, Play: whatever the Stops return, the source-set
\* follows them, and Play is sent only after a source-set attempt of the
\* same execution succeeded.
C34_CallOrder ==
    [][ \A w \in Workers :
          /\ worker_pc[w] = "play_stop" =>
                worker_pc'[w] \in {"play_stop", "variants_stop"}
          /\ worker_pc[w] = "variants_stop" =>
                worker_pc'[w] \in {"variants_stop", "set_uri"}
          /\ Enters(w, "set_uri") => Moves(w, "variants_stop", "set_uri")
          /\ Enters(w, "uri_done") => Moves(w, "set_uri", "uri_done")
          /\ Enters(w, "play_call") =>
                Moves(w, "uri_done", "play_call") /\ ok[w]
      ]_vars

\* Play is being sent after the second descriptor variant was accepted.
C34_Witness ==
    \E w \in Workers : worker_pc[w] = "play_call" /\ ok[w] /\ attempt[w] = 2

\* C35: the handling of a command, once begun, comes to its end; and while
\* the worker has not been stopped, a waiting worker facing a non-empty
\* queue eventually takes its head.  The queue is first-in first-out and
\* only the worker removes from it, so every accepted command becomes the
\* head after finitely many takes and is dequeued and handled in its turn.
C35_EveryCommandHandled ==
    \A w \in Workers :
        /\ (worker_pc[w] # "idle") ~> (worker_pc[w] = "idle")
        /\ (worker_pc[w] = "idle" /\ queue # <<>> /\ running[w]) ~>
              (worker_pc[w] # "idle" \/ ~running[w])

\* A command waits while the worker sends the last descriptor variant of a
\* Play.
C35_Witness ==
    \E w \in Workers :
        /\ queue # <<>> /\ running[w]
        /\ worker_pc[w] = "set_uri" /\ attempt[w] = 4

\* C36: a poll cycle whose position query fails or brings no data changes
\* nothing of the shared state, enqueues nothing, and leaves the poller at
\* the start of its next cycle.
C36_FailedQuery ==
    [][ /\ poll_pc = "query" => poll_pc' \in {"query", "read_play_all", "check"}
        /\ (poll_pc = "query" /\ poll_pc' = "check") =>
                UNCHANGED <<state, queue, track_started, track_start_time>> ]_vars

\* A query is out while the track is past its grace and was last seen
\* within 2.0s of its end: what a sample would act upon.
C36_Witness ==
    /\ poll_pc = "query"
    /\ state.play_all_enabled /\ state.track_started
    /\ state.track_start_time = "stale"
    /\ state.last_position >= 60 /\ state.duration > 0
    /\ queue = <<>>

\* C37: is_playing holds only in the phases TRANSITIONING and PLAYING, and
\* the phase PLAYING only with is_playing.
C37_PlayingPhase ==
    /\ state.is_playing => state.transport_state \in {"TRANSITIONING", "PLAYING"}
    /\ state.transport_state = "PLAYING" => state.is_playing

\* A track plays while the worker has a Stop under way.
C37_Witness ==
    /\ state.is_playing /\ state.transport_state = "PLAYING"
    /\ \E w \in Workers : worker_pc[w] = "stop"

\* C38: the phase is TRANSITIONING only while a Play command is being
\* handled: with the worker idle it is STOPPED, PLAYING or PAUSED.
C38_TransitioningOnlyInPlay ==
    (\A w \in Workers : worker_pc[w] = "idle") =>
        state.transport_state \in {"STOPPED", "PLAYING", "PAUSED"}

\* A Play execution is under way in the phase TRANSITIONING.
C38_Witness ==
    /\ state.transport_state = "TRANSITIONING" /\ state.is_playing
    /\ \E w \in Workers : worker_pc[w] = "play_call"

\* C39: the console never clears an error it has not read: the error its
\* clear removes is the one its snapshot held.
C39_NoErrorLost ==
    [][ (ui = "display" /\ ui' = "menu" /\ state.error # "None" /\ state.error' = "None") =>
            snapshot.error = state.error ]_vars

\* While the console prints from a snapshot that holds an error, the worker
\* has recorded another one.
C39_Witness ==
    /\ ui = "display"
    /\ snapshot.error # "None" /\ state.error # "None"
    /\ snapshot.error # state.error


\* C40: for an AIFF track the size stated in the source descriptor equals
\* the Content-Length the server computes when it serves that track as WAV,
\* 44 + frames*channels*2, whatever the sample width of the source (16-bit,
\* 24-bit, 32-bit or float).
C40_DescriptorSize ==
    FallbackAnswered =>
        size_attr(filesize_bytes_aiff_as_wav(info)) =
            <<HeaderLen + info.frames * info.channels * sampwidth>>

\* The answered fallback's source is a 24-bit AIFF of 1000 frames.
C40_Witness == FallbackAnswered /\ info.subtype = "PCM_24" /\ info.frames = 1000

====
